---- MODULE Spec2Model ----
(***************************************************************************)
(* Model of src/server.js: the credential subsystem (register, login,      *)
(* userIsAuthorized) and the authorization gate of the posts handlers.     *)
(*                                                                         *)
(* Strings are sequences of one-character strings, so that split(':') is   *)
(* computed character by character.  The database is PostgreSQL at its     *)
(* default isolation level (READ COMMITTED): a statement reads the rows    *)
(* committed when it runs, an UPDATE waits for the row lock of an          *)
(* uncommitted UPDATE of the same row and then overwrites the row.         *)
(***************************************************************************)
EXTENDS Integers, Sequences, FiniteSets, TLC

\* ---------------------------------------------------------------- bounds
NReg == 2          \* registration requests in flight or finished
MaxCredLen == 5    \* longest credential string handed to userIsAuthorized
NPost == 1         \* posts requests in flight or finished
MaxPosts == 2      \* rows the posts table may hold

\* ------------------------------------------------------------ value sets
NULL == <<"NULL">>             \* SQL NULL / JS null
UNDEFINED == <<"undefined">>   \* JS undefined

\* crypto.randomBytes(32).toString('hex'): a fresh value at every call. The
\* k-th call made by request r yields the one-digit hex string below, so
\* that no two calls yield the same value.
HexChars == <<"1", "2", "3", "4", "5", "6", "7", "8", "9", "c", "d", "e", "f">>
RegIds == 1..NReg
randomBytesHex(r, k) == <<HexChars[2 * (r - 1) + k]>>
Tokens == {randomBytesHex(r, 1) : r \in RegIds}
Salts == {randomBytesHex(r, 2) : r \in RegIds}
TokenChars == {HexChars[2 * (r - 1) + 1] : r \in RegIds}
NameChars == {"a", "b"}

StringsOfLen(chars, n) == [1..n -> chars]

StringsUpTo(chars, n) == UNION {StringsOfLen(chars, k) : k \in 0..n}

Passwords == {<<"p">>, <<"q">>}
\* every string over the characters of usernames, of tokens and the colon
Alphabet == NameChars \cup TokenChars \cup {":"}
Creds == StringsUpTo(Alphabet, MaxCredLen)
Usernames == {<<"a">>, <<"b">>, <<"m">>}   \* "m" has no row
RegNames == {<<"a">>, <<"m">>}              \* names sent to /register

\* ------------------------------------------------------------- variables
VARIABLES auth, reg, last, posts, preq
vars == <<auth, reg, last, posts, preq>>

\* ---------------------------------------------------- pure functions
\* crypto.pbkdf2Sync(secret, salt, 100000, 64, 'sha256').toString('hex'):
\* deterministic and collision-free on the modelled domain; a null or
\* undefined argument makes pbkdf2Sync throw a TypeError.
THROWN == <<"TypeError">>

generatePasswordHash(secret, salt) ==
    IF secret \in {NULL, UNDEFINED} \/ salt \in {NULL, UNDEFINED}
    THEN THROWN
    ELSE <<"#">> \o secret \o <<"$">> \o salt

\* String.prototype.split(':'): every colon separates two segments.
RECURSIVE Split(_)
Split(s) ==
    IF s = << >> THEN << << >> >>
    ELSE IF Head(s) = ":" THEN << << >> >> \o Split(Tail(s))
    ELSE LET rest == Split(Tail(s))
         IN  << <<Head(s)>> \o Head(rest) >> \o Tail(rest)

\* node-postgres sends an undefined query parameter as NULL.
SqlParam(v) == IF v = UNDEFINED THEN NULL ELSE v

\* faulty variant: NULL compares equal to NULL
SqlEq_NullMatches(col, param) == col = param

\* SQL "column = $n": never true when either side is NULL.
SqlEq(col, param) == col # NULL /\ param # NULL /\ col = param

\* SELECT id FROM hardball.auth WHERE username=$1 AND token=$2
SelectAuthIds(tbl, user, token) ==
    {i \in DOMAIN tbl : SqlEq(tbl[i].username, SqlParam(user))
                        /\ SqlEq(tbl[i].token, SqlParam(token))}

\* split[1] of a JS array: undefined past the end.
SplitToken(split) == IF Len(split) >= 2 THEN split[2] ELSE UNDEFINED

\* faulty variant: the query has lost its "AND token=$2"
userIsAuthorized_AnyToken(authStr, tbl) ==
    LET split == Split(authStr)
        user  == split[1]
    IN  Cardinality({i \in DOMAIN tbl :
                        SqlEq(tbl[i].username, SqlParam(user))}) = 1

userIsAuthorized(authStr, tbl) ==
    LET split == Split(authStr)
        user  == split[1]
        token == SplitToken(split)
    IN  Cardinality(SelectAuthIds(tbl, user, token)) = 1

\* faulty variant: the WHERE clause is lost, every row is returned
SelectByUsername_NoWhere(tbl, name) == DOMAIN tbl

\* SELECT ... FROM hardball.auth WHERE username = $1 (login and register)
SelectByUsername(tbl, name) ==
    {i \in DOMAIN tbl : SqlEq(tbl[i].username, SqlParam(name))}

\* faulty variant: the UPDATE sets salt and token and leaves pass_hash alone
UpdateAuth_NoHash(tbl, salt, token, passHash, rowId) ==
    [i \in DOMAIN tbl |->
        IF i = rowId
        THEN [tbl[i] EXCEPT !.salt = salt, !.token = token]
        ELSE tbl[i]]

\* UPDATE hardball.auth SET salt=$1, token=$2, pass_hash=$3 WHERE id=$4
UpdateAuth(tbl, salt, token, passHash, rowId) ==
    [i \in DOMAIN tbl |->
        IF i = rowId
        THEN [tbl[i] EXCEPT !.salt = salt, !.token = token,
                            !.pass_hash = passHash]
        ELSE tbl[i]]

\* !x of JavaScript for the values a token column can hold
Falsy(v) == v \in {NULL, UNDEFINED, << >>}

\* ------------------------------------------------------ initial state
\* The rows an administrator provisioned: username only, the rest NULL.
ProvisionedRow(name) ==
    [username |-> name, salt |-> NULL, token |-> NULL, pass_hash |-> NULL]

ProvisionedAuth == <<ProvisionedRow(<<"a">>), ProvisionedRow(<<"b">>)>>

RegIdle ==
    [pc |-> "idle", name |-> NULL, pass |-> NULL, rowId |-> 0,
     salt |-> NULL, token |-> NULL, passHash |-> NULL,
     dirty |-> FALSE, txOpen |-> FALSE, released |-> 0,
     commitErr |-> FALSE, res |-> << >>]

\* no login or userIsAuthorized call has been made yet
NoOp ==
    [op |-> "none", name |-> << >>, pass |-> << >>, authStr |-> << >>,
     err |-> FALSE, thrown |-> FALSE, ret |-> FALSE, res |-> << >>]

PostIds == 1..MaxPosts
PostReqIds == 1..NPost
NoBody == [props |-> {}, title |-> << >>]
PostIdle ==
    [pc |-> "idle", op |-> "none", hasAuth |-> FALSE, authStr |-> << >>,
     body |-> NoBody, id |-> 0, checked |-> FALSE, authorized |-> FALSE,
     mutated |-> FALSE, res |-> << >>]

\* hardball.posts: seq is the last id the serial column gave out, rows maps
\* the id of each row to its title
EmptyPosts == [seq |-> 0, rows |-> << >>]

\* the row of name once request r has registered it with password pass
RegisteredRow(name, r, pass) ==
    [username |-> name, salt |-> randomBytesHex(r, 2),
     token |-> randomBytesHex(r, 1),
     pass_hash |-> generatePasswordHash(pass, randomBytesHex(r, 2))]

RowStates(name) ==
    {ProvisionedRow(name)}
        \cup {RegisteredRow(name, r, pass) : r \in RegIds, pass \in Passwords}

\* the tables registration can leave behind: every row is either as
\* provisioned or as one registration wrote it, and no two rows were written
\* by the same request
StoreStates ==
    {st \in {<<ra, rb>> : ra \in RowStates(<<"a">>),
                          rb \in RowStates(<<"b">>)} :
        st[1].token = NULL \/ st[1].token # st[2].token}

Init ==
    /\ auth = ProvisionedAuth
    /\ reg = [r \in RegIds |-> RegIdle]
    /\ last = NoOp
    /\ posts = EmptyPosts
    /\ preq = [p \in PostReqIds |-> PostIdle]

\* ------------------------------------------- POST /api/auth/register
\* faulty variant: the new token is handed back with the 201 response
Res201_WithToken(name) ==
    [status |-> 201, user |-> name, token |-> randomBytesHex(1, 1)]

\* res.status(201).json({'user': name, 'status': 201,})
Res201(name) == [status |-> 201, user |-> name]
Res409 == [status |-> 409, error |-> "User is already registered!"]
Res403 == [status |-> 403, error |-> "This user is not allowed to register!"]

\* the row an UPDATE of request r has written and not yet committed
RowLocked(i) == \E r \in RegIds : reg[r].dirty /\ reg[r].rowId = i

\* committed token of the row called name, NULL when there is none
Registered(tbl, name) ==
    \E i \in DOMAIN tbl : tbl[i].username = name /\ tbl[i].token # NULL

\* the handler reads req.body and asks the pool for a client
RegisterRequest(r, name, pass) ==
    /\ reg[r].pc = "idle"
    /\ reg' = [reg EXCEPT ![r].pc = "connect", ![r].name = name,
                          ![r].pass = pass]
    /\ UNCHANGED <<auth, last, posts, preq>>

\* POOL.connect callback: err is ignored, so with no client the call
\* client.query('BEGIN') throws; otherwise BEGIN is sent.
RegConnect(r, err) ==
    /\ reg[r].pc = "connect"
    /\ reg' = [reg EXCEPT ![r].pc = IF err THEN "thrown" ELSE "begin"]
    /\ UNCHANGED <<auth, last, posts, preq>>

\* BEGIN runs; its callback goes on to the SELECT or to shouldAbort(err)
RegBegin(r, err) ==
    /\ reg[r].pc = "begin"
    /\ reg' = [reg EXCEPT ![r].pc = IF err THEN "rollback" ELSE "select",
                          ![r].txOpen = ~err]
    /\ UNCHANGED <<auth, last, posts, preq>>

\* faulty variant: the token of the selected row is not looked at
TokenIsEmpty_Always(row) == TRUE

\* if (!result.rows[0]['token'])
TokenIsEmpty(row) == Falsy(row.token)

\* the SELECT callback once the query succeeded: result.rows of the
\* committed table decides between 403, 409 and the UPDATE
RegSelected(q, rows, token, salt) ==
    IF rows = {} THEN
        [q EXCEPT !.pc = "done", !.released = @ + 1,
                  !.res = Append(@, Res403)]
    ELSE LET rowId == CHOOSE i \in rows : TRUE
         IN  IF TokenIsEmpty(auth[rowId]) THEN
                 [q EXCEPT !.pc = "update", !.rowId = rowId,
                           !.token = token, !.salt = salt,
                           !.passHash = generatePasswordHash(q.pass, salt)]
             ELSE
                 [q EXCEPT !.pc = "done", !.released = @ + 1,
                           !.res = Append(@, Res409)]

\* SELECT id, username, token ... WHERE username = $1 runs and calls back;
\* token and salt are the two crypto.randomBytes(32) values.
RegSelect(r, err) ==
    /\ reg[r].pc = "select"
    /\ reg' = [reg EXCEPT ![r] =
                 IF err THEN [@ EXCEPT !.pc = "rollback"]
                 ELSE RegSelected(@, SelectByUsername(auth, @.name),
                                  randomBytesHex(r, 1), randomBytesHex(r, 2))]
    /\ UNCHANGED <<auth, last, posts, preq>>

\* the UPDATE runs: it waits while another transaction holds the row's
\* lock, then writes inside this transaction; on error shouldAbort
RegUpdate(r, err) ==
    /\ reg[r].pc = "update"
    /\ err \/ ~RowLocked(reg[r].rowId)
    /\ reg' = [reg EXCEPT ![r].pc = IF err THEN "rollback" ELSE "commit",
                          ![r].dirty = ~err]
    /\ UNCHANGED <<auth, last, posts, preq>>

\* faulty variant: the statement is an INSERT, the commit adds a row
Committed_Insert(tbl, q) ==
    IF q.dirty
    THEN Append(tbl, [username |-> q.name, salt |-> q.salt,
                      token |-> q.token, pass_hash |-> q.passHash])
    ELSE tbl

\* what the transaction of request q makes visible when it commits
Committed(tbl, q) ==
    IF q.dirty THEN UpdateAuth(tbl, q.salt, q.token, q.passHash, q.rowId)
    ELSE tbl

\* COMMIT runs and calls back: an error is only logged, then done() and
\* the 201 response. A failed COMMIT may or may not have been applied.
RegCommit(r, err, applied) ==
    /\ reg[r].pc = "commit"
    /\ ~err => applied
    /\ auth' = IF applied THEN Committed(auth, reg[r]) ELSE auth
    /\ reg' = [reg EXCEPT ![r].pc = "done", ![r].dirty = FALSE,
                          ![r].txOpen = FALSE, ![r].commitErr = err,
                          ![r].released = @ + 1,
                          ![r].res = Append(@, Res201(reg[r].name))]
    /\ UNCHANGED <<last, posts, preq>>

\* shouldAbort(err): ROLLBACK runs, its error is only logged, then done();
\* the caller returns without sending a response.
RegRollback(r, err) ==
    /\ reg[r].pc = "rollback"
    /\ reg' = [reg EXCEPT ![r].pc = "aborted", ![r].dirty = FALSE,
                          ![r].txOpen = IF err THEN @ ELSE FALSE,
                          ![r].released = @ + 1]
    /\ UNCHANGED <<auth, last, posts, preq>>

Register ==
    \E r \in RegIds :
        \/ \E name \in RegNames, pass \in Passwords :
               RegisterRequest(r, name, pass)
        \/ \E err \in BOOLEAN : RegConnect(r, err)
        \/ \E err \in BOOLEAN : RegBegin(r, err)
        \/ \E err \in BOOLEAN : RegSelect(r, err)
        \/ \E err \in BOOLEAN : RegUpdate(r, err)
        \/ \E err \in BOOLEAN, applied \in BOOLEAN : RegCommit(r, err, applied)
        \/ \E err \in BOOLEAN : RegRollback(r, err)

\* ---------------------------------------------- POST /api/auth/login
Res200Login(name, token) == [user |-> name, status |-> 200, token |-> token]

\* faulty variant: the wrong-password response says which of the two was wrong
ResWrongPassword_Telling(name) ==
    [user |-> name, status |-> 401, error |-> "The password is incorrect"]

\* the "password is incorrect" response
ResWrongPassword(name) ==
    [user |-> name, status |-> 401,
     error |-> "Either the username or password is incorrect"]

\* the "username not found" response
ResUnknownUser(name) ==
    [user |-> name, status |-> 401,
     error |-> "Either the username or password is incorrect"]

Thrown(op) == [op EXCEPT !.thrown = TRUE]

\* the POOL.query callback of the login handler on result.rows
LoginResult(op, tbl, rows) ==
    IF Cardinality(rows) = 1 THEN
        LET row  == tbl[CHOOSE i \in rows : TRUE]
            hash == generatePasswordHash(op.pass, row.salt)
        IN  IF hash = THROWN THEN Thrown(op)
            ELSE IF hash = row.pass_hash
                 THEN [op EXCEPT !.res = <<Res200Login(op.name, row.token)>>]
                 ELSE [op EXCEPT !.res = <<ResWrongPassword(op.name)>>]
    ELSE [op EXCEPT !.res = <<ResUnknownUser(op.name)>>]

\* faulty variant: a failed login query wipes the token of the user's row
Login_Wipes(name, pass, err) ==
    LET op == [op |-> "login", name |-> name, pass |-> pass,
               authStr |-> << >>, err |-> err, thrown |-> FALSE,
               ret |-> FALSE, res |-> << >>]
    IN  /\ last' = IF err THEN Thrown(op)
                   ELSE LoginResult(op, auth, SelectByUsername(auth, name))
        /\ auth' = [i \in DOMAIN auth |->
                       IF err /\ auth[i].username = name
                       THEN [auth[i] EXCEPT !.token = NULL]
                       ELSE auth[i]]
        /\ UNCHANGED <<reg, posts, preq>>

Login(name, pass, err) ==
    LET op == [op |-> "login", name |-> name, pass |-> pass,
               authStr |-> << >>, err |-> err, thrown |-> FALSE,
               ret |-> FALSE, res |-> << >>]
    IN  /\ last' = IF err THEN Thrown(op)
                   ELSE LoginResult(op, auth, SelectByUsername(auth, name))
        /\ UNCHANGED <<auth, reg, posts, preq>>

\* ------------------------------------------------- userIsAuthorized
\* one call of userIsAuthorized(authStr); a failed query rejects
Authorize(authStr, err) ==
    LET op == [op |-> "authorize", name |-> << >>, pass |-> << >>,
               authStr |-> authStr, err |-> err, thrown |-> FALSE,
               ret |-> FALSE, res |-> << >>]
    IN  /\ last' = IF err THEN Thrown(op)
                   ELSE [op EXCEPT !.ret = userIsAuthorized(authStr, auth)]
        /\ UNCHANGED <<auth, reg, posts, preq>>

\* the credential strings a client sends: "<username>:<token>"
WireCreds ==
    {u \o <<":">> \o t : u \in Usernames, t \in Tokens \cup {<<"m">>}}

LoginAny ==
    \E name \in Usernames, pass \in Passwords, err \in BOOLEAN :
        Login(name, pass, err)

AuthorizeWire ==
    \E authStr \in WireCreds, err \in BOOLEAN : Authorize(authStr, err)

Next == Register \/ LoginAny \/ AuthorizeWire

\* ------------------------------------- /api/posts/create, modify, delete
Titles == {<<"x">>, <<"y">>}
AllProps == {"title", "body", "publishDate", "createDate"}

\* request bodies: complete ones, one without createDate, one without title
Bodies ==
    {[props |-> AllProps, title |-> t] : t \in Titles}
        \cup {[props |-> AllProps \ {"createDate"}, title |-> <<"y">>],
              [props |-> AllProps \ {"title"}, title |-> << >>]}

\* authorization headers: the credential of a, a wrong token, no colon
PostCreds == {<<"a", ":", "1">>, <<"a", ":", "3">>, <<"a">>}

ResUnauthorized == [error |-> "Unauthorized!"]
ResInvalid == [status |-> 400, error |-> "Data is invalid"]
ResUnexpected == [error |-> "An unexpected error occured!"]

\* the hasOwnProperty checks of create and modify; delete has none
DataIsValid(op, body) ==
    CASE op = "create" -> AllProps \subseteq body.props
      [] op = "modify" -> {"title", "body", "publishDate"} \subseteq body.props
      [] OTHER -> TRUE

\* the handler starts: without an authorization header the && short-circuits
\* to the 401 response, otherwise userIsAuthorized sends its query
PostRequest(p, op, hasAuth, authStr, body, id) ==
    /\ preq[p].pc = "idle"
    /\ preq' = [preq EXCEPT ![p] =
                  IF hasAuth
                  THEN [@ EXCEPT !.pc = "auth", !.op = op, !.hasAuth = TRUE,
                                 !.authStr = authStr, !.body = body,
                                 !.id = id]
                  ELSE [@ EXCEPT !.pc = "done", !.op = op, !.body = body,
                                 !.id = id, !.res = <<ResUnauthorized>>]]
    /\ UNCHANGED <<auth, reg, last, posts>>

\* faulty variant: the request goes on to its query whatever the check returned
PostAfterCheck_NoGate(q, ok) ==
    IF DataIsValid(q.op, q.body)
    THEN [q EXCEPT !.pc = "mutate", !.checked = TRUE, !.authorized = ok]
    ELSE [q EXCEPT !.pc = "done", !.checked = TRUE, !.authorized = ok,
                   !.res = <<ResInvalid>>]

\* the handler after await userIsAuthorized(...) returned ok
PostAfterCheck(q, ok) ==
    IF ~ok
    THEN [q EXCEPT !.pc = "done", !.checked = TRUE,
                   !.res = <<ResUnauthorized>>]
    ELSE IF DataIsValid(q.op, q.body)
         THEN [q EXCEPT !.pc = "mutate", !.checked = TRUE,
                        !.authorized = TRUE]
         ELSE [q EXCEPT !.pc = "done", !.checked = TRUE,
                        !.authorized = TRUE, !.res = <<ResInvalid>>]

\* the query of userIsAuthorized runs; a failed query rejects and the
\* catch handler answers 500
PostCheck(p, err) ==
    /\ preq[p].pc = "auth"
    /\ preq' = [preq EXCEPT ![p] =
                  IF err
                  THEN [@ EXCEPT !.pc = "done", !.res = <<ResUnexpected>>]
                  ELSE PostAfterCheck(@, userIsAuthorized(@.authStr, auth))]
    /\ UNCHANGED <<auth, reg, last, posts>>

\* INSERT INTO hardball.posts / UPDATE ... WHERE id / DELETE ... WHERE id
PostsQuery(tbl, q) ==
    CASE q.op = "create" ->
             [seq |-> tbl.seq + 1,
              rows |-> [i \in DOMAIN tbl.rows \cup {tbl.seq + 1} |->
                          IF i = tbl.seq + 1 THEN q.body.title
                          ELSE tbl.rows[i]]]
      [] q.op = "modify" ->
             [tbl EXCEPT !.rows =
                 [i \in DOMAIN tbl.rows |->
                     IF i = q.id THEN q.body.title ELSE tbl.rows[i]]]
      [] OTHER ->
             [tbl EXCEPT !.rows =
                 [i \in DOMAIN tbl.rows \ {q.id} |-> tbl.rows[i]]]

\* the response after the query of the request succeeded
ResPost(q) ==
    CASE q.op = "create" -> [status |-> 201, post |-> q.body]
      [] q.op = "modify" -> [status |-> 200, post |-> q.body]
      [] OTHER -> [status |-> 200, post |-> q.id]

\* the INSERT, UPDATE or DELETE runs; a failed query is answered 500
PostMutate(p, err) ==
    /\ preq[p].pc = "mutate"
    /\ err \/ preq[p].op # "create" \/ posts.seq < MaxPosts
    /\ posts' = IF err THEN posts ELSE PostsQuery(posts, preq[p])
    /\ preq' = [preq EXCEPT ![p] =
                  IF err
                  THEN [@ EXCEPT !.pc = "done", !.res = <<ResUnexpected>>]
                  ELSE [@ EXCEPT !.pc = "done", !.mutated = TRUE,
                                 !.res = <<ResPost(preq[p])>>]]
    /\ UNCHANGED <<auth, reg, last>>

Posts ==
    \E p \in PostReqIds :
        \/ \E hasAuth \in BOOLEAN, authStr \in PostCreds :
               \/ \E body \in Bodies :
                      PostRequest(p, "create", hasAuth, authStr, body, 0)
               \/ \E body \in Bodies, id \in PostIds :
                      PostRequest(p, "modify", hasAuth, authStr, body, id)
               \/ \E id \in PostIds :
                      PostRequest(p, "delete", hasAuth, authStr, NoBody, id)
        \/ \E err \in BOOLEAN : PostCheck(p, err)
        \/ \E err \in BOOLEAN : PostMutate(p, err)

\* the posts handlers against a table in which a is registered or not, with
\* no post or one post stored
InitPosts ==
    /\ auth \in {ProvisionedAuth,
                  <<RegisteredRow(<<"a">>, 1, <<"p">>),
                    ProvisionedRow(<<"b">>)>>}
    /\ reg = [r \in RegIds |-> RegIdle]
    /\ last = NoOp
    /\ posts \in {EmptyPosts, [seq |-> 1, rows |-> <<(<<"x">>)>>]}
    /\ preq = [p \in PostReqIds |-> PostIdle]

SpecPosts == InitPosts /\ [][Posts]_vars

Spec == Init /\ [][Next]_vars

\* ------------------------------------------------ one client, in sequence
\* bob is provisioned and unregistered; the other row is as provisioned or
\* as a request other than the first one registered it
Bob == <<"b">>
InitE2E ==
    /\ auth \in {st \in StoreStates :
                    /\ st[2] = ProvisionedRow(Bob)
                    /\ st[1].token # randomBytesHex(1, 1)}
    /\ reg = [r \in RegIds |-> RegIdle]
    /\ last = NoOp
    /\ posts = EmptyPosts
    /\ preq = [p \in PostReqIds |-> PostIdle]

\* tokens that were never stored for bob
WrongTokens == (Tokens \ {randomBytesHex(1, 1)}) \cup {<<"m">>}
BobWith(t) == Bob \o <<":">> \o t

\* register(bob, pw1), every store operation succeeding
E2ERegisterFirst ==
    \/ \E pass \in Passwords : RegisterRequest(1, Bob, pass)
    \/ RegConnect(1, FALSE)
    \/ RegBegin(1, FALSE)
    \/ RegSelect(1, FALSE)
    \/ RegUpdate(1, FALSE)
    \/ RegCommit(1, FALSE, TRUE)

\* login(bob, pw1) once the first request has been answered
E2ELogin ==
    /\ reg[1].pc = "done" /\ last = NoOp
    /\ Login(Bob, reg[1].pass, FALSE)

\* authorize("bob:" + T) with the token T of the login response
E2EAuthorizeToken ==
    /\ last.op = "login" /\ last.res # << >>
    /\ "token" \in DOMAIN last.res[1]
    /\ Authorize(BobWith(last.res[1].token), FALSE)

\* authorize("bob:wrong")
E2EAuthorizeWrong ==
    /\ last.op = "authorize"
    /\ last.authStr \notin {BobWith(w) : w \in WrongTokens}
    /\ \E w \in WrongTokens : Authorize(BobWith(w), FALSE)

\* register(bob, pw2), every store operation succeeding
E2ERegisterSecond ==
    \/ /\ last.op = "authorize"
       /\ last.authStr \in {BobWith(w) : w \in WrongTokens}
       /\ \E pass \in Passwords : RegisterRequest(2, Bob, pass)
    \/ RegConnect(2, FALSE)
    \/ RegBegin(2, FALSE)
    \/ RegSelect(2, FALSE)

NextE2E ==
    \/ E2ERegisterFirst
    \/ E2ELogin
    \/ E2EAuthorizeToken
    \/ E2EAuthorizeWrong
    \/ E2ERegisterSecond

SpecE2E == InitE2E /\ [][NextE2E]_vars

\* -------------------------------- registration interleaved with reads
NMixed == 1        \* registration requests that run beside the reads
RegisterMixed ==
    \E r \in (1..NMixed) \cap RegIds :
        \/ \E name \in RegNames, pass \in Passwords :
               RegisterRequest(r, name, pass)
        \/ \E err \in BOOLEAN : RegConnect(r, err)
        \/ \E err \in BOOLEAN : RegBegin(r, err)
        \/ \E err \in BOOLEAN : RegSelect(r, err)
        \/ \E err \in BOOLEAN : RegUpdate(r, err)
        \/ \E err \in BOOLEAN, applied \in BOOLEAN : RegCommit(r, err, applied)
        \/ \E err \in BOOLEAN : RegRollback(r, err)

NextMixed == RegisterMixed \/ LoginAny \/ AuthorizeWire

SpecMixed == Init /\ [][NextMixed]_vars

\* registration requests alone, interleaved in every order
SpecRegister == Init /\ [][Register]_vars

\* login applied to every table registration can leave behind
InitStore ==
    /\ auth \in StoreStates
    /\ reg = [r \in RegIds |-> RegIdle]
    /\ last = NoOp
    /\ posts = EmptyPosts
    /\ preq = [p \in PostReqIds |-> PostIdle]

SpecLogin == InitStore /\ [][LoginAny]_vars

\* the tables that differ in who is registered and with which token
TokenStores ==
    {st \in StoreStates :
        \A i \in DOMAIN st :
            st[i].token # NULL
                => \E r \in RegIds :
                       st[i] = RegisteredRow(st[i].username, r, <<"p">>)}

InitTokens ==
    /\ auth \in TokenStores
    /\ reg = [r \in RegIds |-> RegIdle]
    /\ last = NoOp
    /\ posts = EmptyPosts
    /\ preq = [p \in PostReqIds |-> PostIdle]

\* userIsAuthorized applied once to every credential string
AuthorizeAny ==
    /\ last = NoOp
    /\ \E authStr \in Creds, err \in BOOLEAN : Authorize(authStr, err)

SpecAuth == InitTokens /\ [][AuthorizeAny]_vars

\* ================================================================ claims
Status(q) == IF q.res = << >> THEN 0 ELSE q.res[1].status

HasRow(tbl, name) == \E i \in DOMAIN tbl : tbl[i].username = name

AllOrNothing(row) ==
    \/ row.salt = NULL /\ row.pass_hash = NULL /\ row.token = NULL
    \/ row.salt # NULL /\ row.pass_hash # NULL /\ row.token # NULL

\* the requests that asked to register name
RequestsFor(name) == {r \in RegIds : reg[r].name = name}

\* request r ran to its response and none of its store operations failed
AnsweredCleanly(r) == reg[r].pc = "done" /\ ~reg[r].commitErr

\* C1: when N >= 2 registration requests for the same whitelisted username,
\* unregistered at the start, have all been answered (no store operation
\* failed), exactly one of them was answered 201 and every other one 409.
C1_ExactlyOneCreated ==
    \A name \in RegNames :
        (/\ HasRow(auth, name)
         /\ Cardinality(RequestsFor(name)) >= 2
         /\ \A r \in RequestsFor(name) : AnsweredCleanly(r))
        => /\ Cardinality({r \in RequestsFor(name) : Status(reg[r]) = 201}) = 1
           /\ \A r \in RequestsFor(name) : Status(reg[r]) \in {201, 409}

\* C2: a token present in the committed table is the same in the next state,
\* whatever request takes the step.
C2_TokenNeverChanges ==
    [][\A i \in DOMAIN auth :
          auth[i].token # NULL
              => i \in DOMAIN auth' /\ auth'[i].token = auth[i].token]_vars

\* C3: every committed row has salt, pass_hash and token all NULL or all set.
C3_AtomicUnit == \A i \in DOMAIN auth : AllOrNothing(auth[i])

\* C3 witness: a row is registered while another request's store operation
\* has failed and a third party could read the table.
C3_Witness ==
    /\ \E i \in DOMAIN auth : auth[i].token # NULL
    /\ \E r \in RegIds : reg[r].pc = "aborted"

\* C4: a step of a registration request whose username has no row leaves the
\* table as it was, sends nothing but the 403 response, never reaches the
\* UPDATE, and sends the 403 response when its SELECT succeeds.
C4_NotWhitelisted ==
    [][\A r \in RegIds :
          (reg'[r] # reg[r] /\ ~HasRow(auth, reg'[r].name))
              => /\ auth' = auth
                 /\ reg'[r].res \in {<< >>, <<Res403>>}
                 /\ reg'[r].pc \notin {"update", "commit"}
                 /\ ~reg'[r].dirty
                 /\ (reg[r].pc = "select" /\ reg'[r].pc # "rollback")
                        => reg'[r].res = <<Res403>>]_vars

\* C4 witness: a request for the unknown username has been answered 403.
C4_Witness ==
    \E r \in RegIds : reg[r].name = <<"m">> /\ reg[r].res = <<Res403>>

\* C5: when the SELECT of a registration request succeeds on a username whose
\* row holds a committed token, the request is answered 409 and ends without
\* an UPDATE, for every password; the table is left as it was.
C5_AlreadyRegistered ==
    [][\A r \in RegIds :
          (/\ reg[r].pc = "select"
           /\ reg'[r].pc \notin {"select", "rollback"}
           /\ Registered(auth, reg[r].name))
              => /\ reg'[r].res = <<Res409>>
                 /\ reg'[r].pc = "done"
                 /\ ~reg'[r].dirty
                 /\ auth' = auth]_vars

\* C5 witness: a request was answered 409 and the row still holds the values
\* another request committed.
C5_Witness ==
    \E r \in RegIds :
        /\ reg[r].res = <<Res409>>
        /\ \E w \in RegIds \ {r}, i \in DOMAIN auth :
               /\ auth[i].username = reg[r].name
               /\ auth[i] = RegisteredRow(reg[r].name, w, reg[w].pass)

\* the one response of the InvalidCredentials outcome
InvalidCredentials(name) ==
    [user |-> name, status |-> 401,
     error |-> "Either the username or password is incorrect"]

RowsNamed(tbl, name) == {i \in DOMAIN tbl : tbl[i].username = name}

\* C6: a login whose query succeeded, for a registered identity, is answered
\* 200 with the stored token when the hash derived from the password and the
\* stored salt equals the stored pass_hash, and the InvalidCredentials
\* response otherwise; for a username without a row it is answered the same
\* InvalidCredentials response.
C6_Login ==
    (last.op = "login" /\ ~last.err)
        => \A i \in DOMAIN auth :
              /\ (auth[i].username = last.name /\ auth[i].token # NULL)
                    => /\ ~last.thrown
                       /\ last.res =
                            IF generatePasswordHash(last.pass, auth[i].salt)
                                   = auth[i].pass_hash
                            THEN <<[user |-> last.name, status |-> 200,
                                    token |-> auth[i].token]>>
                            ELSE <<InvalidCredentials(last.name)>>
              /\ RowsNamed(auth, last.name) = {}
                    => ~last.thrown /\ last.res = <<InvalidCredentials(last.name)>>

\* C6 witness: a login with the registration password of a registered
\* identity has been answered 200 with the stored token.
C6_Witness ==
    /\ last.op = "login" /\ ~last.err
    /\ \E i \in DOMAIN auth :
          /\ auth[i].username = last.name /\ auth[i].token # NULL
          /\ generatePasswordHash(last.pass, auth[i].salt) = auth[i].pass_hash
          /\ last.res = <<[user |-> last.name, status |-> 200,
                           token |-> auth[i].token]>>

\* C7: a login whose query succeeded, for a username whose row has no salt
\* and no pass_hash, is answered the InvalidCredentials response and nothing
\* is thrown.
C7_LoginUnregistered ==
    (last.op = "login" /\ ~last.err)
        => \A i \in DOMAIN auth :
              (/\ auth[i].username = last.name
               /\ auth[i].salt = NULL /\ auth[i].pass_hash = NULL)
                  => /\ ~last.thrown
                     /\ last.res = <<InvalidCredentials(last.name)>>

\* the credential string cut at its first colon
RECURSIVE BeforeColon(_)
BeforeColon(s) ==
    IF s = << >> \/ Head(s) = ":" THEN << >>
    ELSE <<Head(s)>> \o BeforeColon(Tail(s))

HasColon(s) == \E k \in 1..Len(s) : s[k] = ":"

AfterColon(s) == SubSeq(s, Len(BeforeColon(s)) + 2, Len(s))

\* C8: a call of userIsAuthorized whose query succeeded throws nothing and
\* returns true exactly when the string has a colon and some row has the
\* part before the first colon as username and the part after it as token.
C8_AuthorizeIff ==
    (last.op = "authorize" /\ ~last.err)
        => /\ ~last.thrown
           /\ last.ret <=>
                  /\ HasColon(last.authStr)
                  /\ \E i \in DOMAIN auth :
                         /\ auth[i].username = BeforeColon(last.authStr)
                         /\ auth[i].token = AfterColon(last.authStr)

\* C9: for a user u with stored token T, the string u:T:x with x not empty
\* is not authorized.
C9_FirstColonOnly ==
    (last.op = "authorize" /\ ~last.err)
        => \A i \in DOMAIN auth :
              LET uT == auth[i].username \o <<":">> \o auth[i].token
                            \o <<":">>
              IN  (/\ auth[i].token # NULL
                   /\ Len(last.authStr) > Len(uT)
                   /\ SubSeq(last.authStr, 1, Len(uT)) = uT)
                      => ~last.ret

\* C10: a step changes the posts table only as the query of a request whose
\* authorization check has returned true (and userIsAuthorized is true of its
\* header); a request that ended without an authorization header, or whose
\* check returned false, was answered 401 and ran no INSERT, UPDATE or DELETE.
C10_GateBeforeMutation ==
    [][/\ posts' # posts
           => \E p \in PostReqIds :
                 /\ preq[p].pc = "mutate" /\ preq'[p].mutated
                 /\ preq[p].hasAuth /\ preq[p].checked /\ preq[p].authorized
                 /\ userIsAuthorized(preq[p].authStr, auth)
       /\ \A p \in PostReqIds :
             (/\ preq'[p].pc # "idle"
              /\ \/ ~preq'[p].hasAuth
                 \/ preq'[p].checked /\ ~preq'[p].authorized)
                 => /\ preq'[p].pc = "done"
                    /\ preq'[p].res = <<ResUnauthorized>>
                    /\ ~preq'[p].mutated]_vars

\* C10 witness: a request whose check returned true has run its query and
\* has been answered with the post.
C10_Witness ==
    \E p \in PostReqIds :
        /\ preq[p].mutated /\ preq[p].authorized
        /\ preq[p].res = <<ResPost(preq[p])>>

\* the request has ended after one of its store operations failed
EndedInFailure(r) ==
    reg[r].pc = "aborted" \/ (reg[r].pc = "done" /\ reg[r].commitErr)

\* C11: when a registration request has ended after BEGIN, SELECT, UPDATE or
\* COMMIT failed, the committed row of its username is as provisioned or as
\* one registration wrote it in full, and the request's transaction is no
\* longer open.
C11_FailureLeavesPriorState ==
    \A r \in RegIds :
        EndedInFailure(r)
            => /\ \A i \in DOMAIN auth :
                     auth[i].username = reg[r].name
                         => auth[i] \in RowStates(reg[r].name)
               /\ ~reg[r].txOpen

\* the request has left the handler by one of its exit paths
Ended(r) == reg[r].pc \in {"done", "aborted"}

\* C12: a registration request that has ended (201, 409, 403 or after a store
\* failure) has released its connection exactly once, and its transaction
\* was ended by COMMIT or ROLLBACK before the release.
C12_ReleasedWithClosedTx ==
    \A r \in RegIds :
        /\ reg[r].released <= 1
        /\ Ended(r) => reg[r].released = 1 /\ ~reg[r].txOpen

\* some field of the response other than the status code holds value v
Carries(body, v) == \E f \in DOMAIN body \ {"status"} : body[f] = v

\* C16: the response to a registration answered 201 is the username and the
\* status 201 and nothing else; no field of it holds the token, the salt or
\* the hash the request generated.
C16_CreatedHidesSecrets ==
    \A r \in RegIds :
        Status(reg[r]) = 201
            => /\ reg[r].res = <<[user |-> reg[r].name, status |-> 201]>>
               /\ DOMAIN reg[r].res[1] = {"user", "status"}
               /\ \A v \in {reg[r].token, reg[r].salt, reg[r].passHash} :
                      ~Carries(reg[r].res[1], v)

\* C16 witness: a request has been answered 201 after generating its token,
\* salt and hash.
C16_Witness ==
    \E r \in RegIds :
        /\ Status(reg[r]) = 201
        /\ reg[r].token # NULL /\ reg[r].salt # NULL /\ reg[r].passHash # NULL

\* the statuses of the register interface
RegisterStatuses == {201, 409, 403, 500}

\* C17: a registration request that has left the handler, also after a
\* failed connect, BEGIN, SELECT or UPDATE, has been sent exactly one
\* response, with status Created, Conflict, Forbidden or Error.
C17_AlwaysAnswered ==
    \A r \in RegIds :
        reg[r].pc \in {"done", "aborted", "thrown"}
            => /\ Len(reg[r].res) = 1
               /\ reg[r].res[1].status \in RegisterStatuses

\* C18: the step that sends 201 leaves the committed row of the username
\* holding the salt, token and hash of that same request, and is not the
\* callback of a failed COMMIT.
C18_CreatedOnlyIfCommitted ==
    [][\A r \in RegIds :
          (Status(reg[r]) # 201 /\ Status(reg'[r]) = 201)
              => /\ ~reg'[r].commitErr
                 /\ \E i \in DOMAIN auth' :
                        auth'[i] = [username |-> reg[r].name,
                                    salt |-> reg[r].salt,
                                    token |-> reg[r].token,
                                    pass_hash |-> reg[r].passHash]]_vars

\* C19: a login(u, p) made after a registration request register(u, p) was
\* answered 201 (its COMMIT reported no error) is answered 200 with the token
\* stored for u, also when other registrations for u ran concurrently.
C19_LoginAfterCreated ==
    [][(/\ last' # last
        /\ last'.op = "login" /\ ~last'.err
        /\ \E r \in RegIds :
              /\ Status(reg[r]) = 201 /\ ~reg[r].commitErr
              /\ reg[r].name = last'.name /\ reg[r].pass = last'.pass)
          => \E i \in DOMAIN auth :
                /\ auth[i].username = last'.name
                /\ last'.res = <<[user |-> last'.name, status |-> 200,
                                  token |-> auth[i].token]>>]_vars

\* C20: a call of userIsAuthorized whose query succeeded returns false when
\* the part of the string before its first colon is the username of a row
\* whose token is NULL, whatever follows, and also with no colon at all.
C20_UnregisteredNeverAuthorized ==
    (last.op = "authorize" /\ ~last.err)
        => \A i \in DOMAIN auth :
              (/\ auth[i].token = NULL
               /\ BeforeColon(last.authStr) = auth[i].username)
                  => ~last.thrown /\ ~last.ret

\* C20 witness: the bare username of an unregistered row, or the username
\* followed by a colon and nothing, has been refused.
C20_Witness ==
    /\ last.op = "authorize" /\ ~last.err /\ ~last.ret
    /\ \E i \in DOMAIN auth :
          /\ auth[i].token = NULL
          /\ last.authStr \in {auth[i].username, auth[i].username \o <<":">>}

\* C13: in the sequential run on a provisioned bob, the first register is
\* answered 201 and from then on bob's stored token is the token T it
\* generated; the login is answered 200 with T; authorize("bob:" + T) is
\* true and authorize("bob:wrong") is false; the second register is answered
\* 409 and never reaches the UPDATE.
C13_EndToEnd ==
    LET T == reg[1].token
    IN  /\ reg[1].pc = "done"
              => /\ reg[1].res = <<[user |-> Bob, status |-> 201]>>
                 /\ T # NULL
                 /\ \E i \in DOMAIN auth :
                        auth[i].username = Bob /\ auth[i].token = T
        /\ last.op = "login"
              => last.res = <<[user |-> Bob, status |-> 200, token |-> T]>>
        /\ last.op = "authorize"
              => ~last.thrown /\ (last.ret <=> last.authStr = BobWith(T))
        /\ reg[2].pc \in {"idle", "connect", "begin", "select", "done"}
        /\ reg[2].pc = "done"
              => reg[2].res =
                     <<[status |-> 409, error |-> "User is already registered!"]>>

\* C13 witness: the run has reached its end: authorize("bob:wrong") was
\* refused and the second register answered 409.
C13_Witness ==
    /\ last.op = "authorize" /\ ~last.ret
    /\ reg[1].pc = "done" /\ reg[2].pc = "done"
    /\ Status(reg[2]) = 409

\* C14: the (id, username) pairs of the credential store are those that
\* were provisioned, in every reachable state: no registration, login or
\* authorize request adds or removes a row or changes a row's id or username.
C14_IdentityRowsFixed ==
    /\ DOMAIN auth = DOMAIN ProvisionedAuth
    /\ \A i \in DOMAIN auth : auth[i].username = ProvisionedAuth[i].username

\* C14 witness: a registration was committed on an existing row and answered,
\* and a login ran after it.
C14_Witness ==
    /\ \E r \in RegIds :
          /\ Status(reg[r]) = 201
          /\ reg[r].rowId \in DOMAIN auth
          /\ auth[reg[r].rowId].token = reg[r].token
    /\ last.op = "login"

\* C15: a login or authorize step leaves the credential store as it was,
\* whatever its input and outcome, and a step that changes the store is the
\* commit of a registration request's transaction.
C15_OnlyActivationWrites ==
    [][/\ last' # last => auth' = auth
       /\ auth' # auth =>
              \E r \in RegIds :
                  /\ reg[r].pc = "commit" /\ reg'[r].pc = "done"
                  /\ auth' = UpdateAuth(auth, reg[r].salt, reg[r].token,
                                        reg[r].passHash, reg[r].rowId)]_vars

\* C15 witness: reads of every outcome ran on an activated store: here an
\* authorize call that was accepted, or a login whose query failed.
C15_Witness ==
    /\ auth # ProvisionedAuth
    /\ \/ last.op = "authorize" /\ last.ret
       \/ last.op = "login" /\ last.err

====
